---- MODULE Spec2Model ----
(***************************************************************************)
(* A model of the maze solver of src/src/main.rs: the State struct (the    *)
(* board, the solved flag, the selected button), the three buttons and the *)
(* cell click of the user interface, and State::traverse, the stack-based  *)
(* depth-first search, taken one loop iteration at a time.                 *)
(*                                                                         *)
(* The program is built for one layout (a 10 x 9 board, Start (1,5), End   *)
(* (8,5)).  The model draws the layout constants once, in Init, from all   *)
(* layouts up to MaxWidth x MaxHeight with Start and End two different     *)
(* cells of the board; they never change afterwards.                       *)
(***************************************************************************)
EXTENDS Integers, Sequences, FiniteSets, TLC

\* Bounds of the model.
MaxWidth == 3
MaxHeight == 3
\* Cell clicks in one behaviour.
MaxClicks == 2
\* Presses of the start button (traversals) in one behaviour.
MaxRuns == 2
\* Cells of the largest board on which termination is checked.
MaxLiveCells == 6

VARIABLES
    consts,         \* the layout constants of the build (main.rs 12-19)
    button_state,   \* State.button_state
    width,          \* State.width
    height,         \* State.height
    solved,         \* State.solved
    state,          \* State.state: state[y][x], rows 0..height
    pc,             \* "idle": in the event loop; "loop": inside traverse()
    stack,          \* traverse(): the work stack of Moves
    visited,        \* traverse(): the HashMap<String, bool>
    ret,            \* the value the latest traverse() returned
    board0,         \* history: the board when the running traverse() was invoked
    expanded,       \* history: the coordinates expanded by the latest traverse(), in order
    skipped,        \* history: the coordinates of the moves the latest traverse() discarded
    hist,           \* history: one record per completed traverse()
    clicks          \* history: number of cell clicks so far

vars == <<consts, button_state, width, height, solved, state, pc, stack,
          visited, ret, board0, expanded, skipped, hist, clicks>>

DEFAULT_HEIGHT == consts.height
DEFAULT_WIDTH == consts.width
DEFAULT_START_X == consts.start_x
DEFAULT_START_Y == consts.start_y
DEFAULT_END_X == consts.end_x
DEFAULT_END_Y == consts.end_y

\* The layouts the constants are drawn from.
Layouts ==
    { [width |-> w, height |-> h, start_x |-> sx, start_y |-> sy,
       end_x |-> ex, end_y |-> ey] :
        w \in 1..MaxWidth, h \in 1..MaxHeight,
        sx \in 0..(MaxWidth - 1), sy \in 0..(MaxHeight - 1),
        ex \in 0..(MaxWidth - 1), ey \in 0..(MaxHeight - 1) }

ValidLayouts ==
    { l \in Layouts :
        /\ l.start_x < l.width /\ l.start_y < l.height
        /\ l.end_x < l.width /\ l.end_y < l.height
        /\ <<l.start_x, l.start_y>> # <<l.end_x, l.end_y>> }

ButtonState == {"NewGame", "Obstacle", "Start"}

SquareKind ==
    {"Init", "Obstacle", "PossiblePath", "SolutionPath", "StartSquare", "EndSquare"}

\* ---------------------------------------------------------------- Node

None == <<>>

Some(v) == <<v>>

Node_new(x, y) == [x |-> x, y |-> y, parent |-> None]

\* self.add(&mut child_node): the child with its parent link set to a clone of self.
Node_add(self, child_node) == [child_node EXCEPT !.parent = Some(self)]

\* Mutant: the collected coordinates are reversed into origin-to-target order.
RECURSIVE find_forward_path(_)
find_forward_path(self) ==
    IF self.parent = None
    THEN <<>>
    ELSE find_forward_path(self.parent[1]) \o <<<<self.x, self.y>>>>

\* The coordinates of self and of its ancestors, nearest first, up to but
\* excluding the node that has no parent.
RECURSIVE find_reverse_path(_)
find_reverse_path(self) ==
    IF self.parent = None
    THEN <<>>
    ELSE <<<<self.x, self.y>>>> \o find_reverse_path(self.parent[1])

\* struct Move(i32, i32, Node)
Move(x, y, node) == <<x, y, node>>

\* ---------------------------------------------------------------- State

\* vec![vec![]] and one more row pushed per column: height + 1 rows, the
\* last one empty.
init_state(h, w) ==
    [column \in 0..h |->
        IF column < h
        THEN [row \in 0..(w - 1) |->
                IF column = DEFAULT_START_Y /\ row = DEFAULT_START_X
                THEN "StartSquare"
                ELSE IF column = DEFAULT_END_Y /\ row = DEFAULT_END_X
                     THEN "EndSquare"
                     ELSE "Init"]
        ELSE [row \in {} |-> "Init"]]

\* Mutant: the squares marked as obstacles survive the reset.
clear_keep_obstacles(board, h, w) ==
    [column \in 0..h |->
        [row \in DOMAIN board[column] |->
            IF board[column][row] = "Obstacle"
            THEN "Obstacle"
            ELSE init_state(h, w)[column][row]]]

\* The board clear() installs.
clear_state(board, h, w) == init_state(h, w)

\* Mutant: an obstacle is accepted as a move.
is_valid_move_obstacle(board, x, y) ==
    IF y < 0 \/ y >= height \/ x < 0 \/ x >= width
    THEN FALSE
    ELSE board[y][x] # "StartSquare"

\* Mutant: the start square is accepted as a move.
is_valid_move_start(board, x, y) ==
    IF y < 0 \/ y >= height \/ x < 0 \/ x >= width
    THEN FALSE
    ELSE board[y][x] # "Obstacle"

\* Mutant: a square marked as part of a solution is refused.
is_valid_move_unmarked(board, x, y) ==
    IF y < 0 \/ y >= height \/ x < 0 \/ x >= width
    THEN FALSE
    ELSE board[y][x] \in {"Init", "PossiblePath", "EndSquare"}

is_valid_move(board, x, y) ==
    IF y < 0 \/ y >= height \/ x < 0 \/ x >= width
    THEN FALSE
    ELSE LET square_kind == board[y][x]
         IN  CASE square_kind = "Obstacle" -> FALSE
               [] square_kind = "StartSquare" -> FALSE
               [] square_kind = "Init" -> TRUE
               [] square_kind = "SolutionPath" -> TRUE
               [] square_kind = "PossiblePath" -> TRUE
               [] square_kind = "EndSquare" -> TRUE

\* Mutant: the list is left in the order it was written.
NotReversed(s) == s

\* all_moves.reverse()
Reverse(s) == [i \in 1..Len(s) |-> s[Len(s) + 1 - i]]

\* Mutant: the first candidate is the diagonal (x + 1, y + 1).
all_moves_diagonal(parent) ==
    LET cur_x == parent.x
        cur_y == parent.y
    IN  << Move(cur_x + 1, cur_y + 1, parent),
           Move(cur_x - 1, cur_y, parent),
           Move(cur_x, cur_y - 1, parent),
           Move(cur_x, cur_y + 1, parent) >>

\* Mutant: the candidate below the node is missing.
all_moves_three(parent) ==
    LET cur_x == parent.x
        cur_y == parent.y
    IN  << Move(cur_x + 1, cur_y, parent),
           Move(cur_x - 1, cur_y, parent),
           Move(cur_x, cur_y - 1, parent) >>

\* Mutant: the candidates are listed South, North, West, East.
all_moves_south_first(parent) ==
    LET cur_x == parent.x
        cur_y == parent.y
    IN  << Move(cur_x, cur_y + 1, parent),
           Move(cur_x, cur_y - 1, parent),
           Move(cur_x - 1, cur_y, parent),
           Move(cur_x + 1, cur_y, parent) >>

\* The vec! of get_possible_moves, before it is reversed.
all_moves(parent) ==
    LET cur_x == parent.x
        cur_y == parent.y
    IN  << Move(cur_x + 1, cur_y, parent),
           Move(cur_x - 1, cur_y, parent),
           Move(cur_x, cur_y - 1, parent),
           Move(cur_x, cur_y + 1, parent) >>

\* Mutant: the candidates are returned without the validity filter.
get_possible_moves_unfiltered(board, parent) == Reverse(all_moves(parent))

get_possible_moves(board, parent) ==
    SelectSeq(Reverse(all_moves(parent)), LAMBDA m : is_valid_move(board, m[1], m[2]))

\* format!("{},{}", cur_x, cur_y)
format(cur_x, cur_y) == ToString(cur_x) \o "," \o ToString(cur_y)

HashMap_new == [k \in {} |-> TRUE]

\* Mutant: the key is taken from the node the move came from.
value_of_parent(m) == format(m[3].x, m[3].y)

\* let value = format!("{},{}", cur_x, cur_y), for the popped move m
value_of(m) == format(m[1], m[2])

\* *visited.get(&value).unwrap_or(&false)
visited_get(map, value) ==
    IF value \in DOMAIN map THEN map[value] ELSE FALSE

\* Mutant: the key is inserted with the value false.
visited_insert_false(map, value) ==
    [k \in DOMAIN map \cup {value} |-> IF k = value THEN FALSE ELSE map[k]]

\* visited.insert(value, true)
visited_insert(map, value) ==
    [k \in DOMAIN map \cup {value} |-> IF k = value THEN TRUE ELSE map[k]]

\* Arc::make_mut(&mut self.state)[y][x] = kind
set_square(board, x, y, kind) == [board EXCEPT ![y][x] = kind]

\* Mutant: the square nearest the End square is left unmarked.
mark_solution_short(board, path) ==
    LET RECURSIVE mark(_, _)
        mark(b, p) ==
            IF p = <<>> THEN b
            ELSE mark([b EXCEPT ![p[1][2]][p[1][1]] = "SolutionPath"], Tail(p))
    IN  IF path = <<>> THEN board ELSE mark(board, Tail(path))

\* for square in path { state[y][x] = SolutionPath }
RECURSIVE mark_solution(_, _)
mark_solution(board, path) ==
    IF path = <<>>
    THEN board
    ELSE mark_solution(set_square(board, path[1][1], path[1][2], "SolutionPath"),
                       Tail(path))

\* Mutant: the popped move stays on the stack.
stack_peek(s) == s

\* What stack.pop() leaves on the stack.
stack_pop(s) == SubSeq(s, 1, Len(s) - 1)

\* ---------------------------------------------------------------- Init

Init ==
    /\ consts \in ValidLayouts
    /\ button_state = "NewGame"
    /\ height = DEFAULT_HEIGHT
    /\ width = DEFAULT_WIDTH
    /\ solved = FALSE
    /\ state = init_state(DEFAULT_HEIGHT, DEFAULT_WIDTH)
    /\ pc = "idle"
    /\ stack = <<>>
    /\ visited = HashMap_new
    /\ ret = <<>>
    /\ board0 = state
    /\ expanded = <<>>
    /\ skipped = {}
    /\ hist = <<>>
    /\ clicks = 0

\* ---------------------------------------------------------------- the user interface

\* square(y, x).on_click
CellClick(y, x) ==
    /\ pc = "idle"
    /\ clicks < MaxClicks
    /\ state' = set_square(state, x, y,
                    CASE button_state = "Obstacle" -> "Obstacle"
                      [] button_state = "NewGame" -> "Init"
                      [] button_state = "Start" -> "Init")
    /\ clicks' = clicks + 1
    /\ UNCHANGED <<consts, button_state, width, height, solved, pc, stack,
                   visited, ret, board0, expanded, skipped, hist>>

\* obstacle_button.on_click
ObstacleButton ==
    /\ pc = "idle"
    /\ button_state' = "Obstacle"
    /\ UNCHANGED <<consts, width, height, solved, state, pc, stack, visited,
                   ret, board0, expanded, skipped, hist, clicks>>

\* new_game_button.on_click: State::clear
NewGameButton ==
    /\ pc = "idle"
    /\ button_state' = "NewGame"
    /\ state' = clear_state(state, height, width)
    /\ UNCHANGED <<consts, width, height, solved, pc, stack, visited, ret,
                   board0, expanded, skipped, hist, clicks>>

\* start_button.on_click, up to the first test of the while loop of traverse()
StartButton ==
    /\ pc = "idle"
    /\ Len(hist) < MaxRuns
    /\ button_state' = "Start"
    /\ visited' = HashMap_new
    /\ stack' = get_possible_moves(state, Node_new(DEFAULT_START_X, DEFAULT_START_Y))
    /\ pc' = "loop"
    /\ board0' = state
    /\ expanded' = <<>>
    /\ skipped' = {}
    /\ UNCHANGED <<consts, width, height, solved, state, ret, hist, clicks>>

\* ---------------------------------------------------------------- traverse

\* traverse() returns path: its locals, the stack and the visited map, are dropped.
Returned(board, path, how) ==
    /\ pc' = "idle"
    /\ ret' = path
    /\ stack' = <<>>
    /\ visited' = HashMap_new
    /\ hist' = Append(hist, [before |-> board0, after |-> board, ret |-> path,
                             exit |-> how, expanded |-> expanded])

\* while stack.len() > 0 fails: vec![] is returned.
LoopExhausted ==
    /\ pc = "loop"
    /\ Len(stack) = 0
    /\ Returned(state, <<>>, "exhausted")
    /\ UNCHANGED <<consts, button_state, width, height, solved, state, board0,
                   expanded, skipped, clicks>>

\* The popped move is on the end square.
LoopReachEnd ==
    /\ pc = "loop"
    /\ Len(stack) > 0
    /\ LET m == stack[Len(stack)]
           cur_x == m[1]
           cur_y == m[2]
           parent == m[3]
           path == find_reverse_path(parent)
       IN  /\ state[cur_y][cur_x] = "EndSquare"
           /\ solved' = TRUE
           /\ state' = mark_solution(state, path)
           /\ Returned(state', path, "solved")
    /\ UNCHANGED <<consts, button_state, width, height, board0, expanded,
                   skipped, clicks>>

\* The popped move is on a coordinate already in the visited map: continue.
LoopSkipVisited ==
    /\ pc = "loop"
    /\ Len(stack) > 0
    /\ LET m == stack[Len(stack)]
           cur_x == m[1]
           cur_y == m[2]
       IN  /\ state[cur_y][cur_x] # "EndSquare"
           /\ visited_get(visited, value_of(m))
           /\ stack' = stack_pop(stack)
           /\ skipped' = skipped \cup {<<cur_x, cur_y>>}
    /\ UNCHANGED <<consts, button_state, width, height, solved, state, pc,
                   visited, ret, board0, expanded, hist, clicks>>

\* The popped move is on a new coordinate: it is marked and expanded.
LoopExpand ==
    /\ pc = "loop"
    /\ Len(stack) > 0
    /\ LET m == stack[Len(stack)]
           cur_x == m[1]
           cur_y == m[2]
           parent == m[3]
           child == Node_add(parent, Node_new(cur_x, cur_y))
       IN  /\ state[cur_y][cur_x] # "EndSquare"
           /\ ~visited_get(visited, value_of(m))
           /\ visited' = visited_insert(visited, value_of(m))
           /\ state' = set_square(state, cur_x, cur_y, "PossiblePath")
           /\ stack' = stack_pop(stack) \o get_possible_moves(state', child)
           /\ expanded' = Append(expanded, <<cur_x, cur_y>>)
           /\ UNCHANGED skipped
    /\ UNCHANGED <<consts, button_state, width, height, solved, pc, ret,
                   board0, hist, clicks>>

\* One iteration of the while loop of traverse().
Loop == LoopExhausted \/ LoopReachEnd \/ LoopSkipVisited \/ LoopExpand

Next ==
    \/ \E y \in 0..(DEFAULT_HEIGHT - 1), x \in 0..(DEFAULT_WIDTH - 1) : CellClick(y, x)
    \/ ObstacleButton
    \/ NewGameButton
    \/ StartButton
    \/ LoopExhausted
    \/ LoopReachEnd
    \/ LoopSkipVisited
    \/ LoopExpand

Spec == Init /\ [][Next]_vars

\* The initial states on boards of at most MaxLiveCells cells.
LiveInit == Init /\ DEFAULT_WIDTH * DEFAULT_HEIGHT <= MaxLiveCells

\* The event handler runs to completion: a started traverse() keeps iterating.
FairSpec == LiveInit /\ [][Next]_vars /\ WF_vars(Loop)

\* ---------------------------------------------------------------- vocabulary of the properties

StartCoord == <<DEFAULT_START_X, DEFAULT_START_Y>>

EndCoord == <<DEFAULT_END_X, DEFAULT_END_Y>>

Cells == { <<x, y>> : x \in 0..(width - 1), y \in 0..(height - 1) }

Abs(n) == IF n < 0 THEN -n ELSE n

Adjacent(a, b) == Abs(a[1] - b[1]) + Abs(a[2] - b[2]) = 1

Range(s) == { s[i] : i \in 1..Len(s) }

\* A traverse() has returned and no other is running.
Done == pc = "idle" /\ Len(hist) > 0

\* The record of the latest completed traverse().
Last == hist[Len(hist)]

Obstacles(board) == { c \in Cells : board[c[2]][c[1]] = "Obstacle" }

\* The Start and the End square are where the layout puts them.
Intact(board) ==
    /\ board[DEFAULT_START_Y][DEFAULT_START_X] = "StartSquare"
    /\ board[DEFAULT_END_Y][DEFAULT_END_X] = "EndSquare"

\* The cells reached from the set S by orthogonal steps onto cells whose
\* classification is not in blocked.
RECURSIVE Closure(_, _, _)
Closure(board, blocked, S) ==
    LET more == { c \in Cells :
                    /\ board[c[2]][c[1]] \notin blocked
                    /\ \E d \in S : Adjacent(c, d) }
    IN  IF more \subseteq S THEN S ELSE Closure(board, blocked, S \cup more)

\* Some orthogonal walk from the Start coordinate over cells not classified
\* in blocked ends on a cell classified EndSquare.
Route(board, blocked) ==
    \E c \in Closure(board, blocked, {StartCoord}) \ {StartCoord} :
        board[c[2]][c[1]] = "EndSquare"

\* Position of a coordinate in the expansion order of the latest traverse().
Pos(c) == CHOOSE i \in 1..Len(Last.expanded) : Last.expanded[i] = c

\* Init, PossiblePath and SolutionPath are all open ground.
Ground(kind) == IF kind \in {"Init", "PossiblePath", "SolutionPath"} THEN "open" ELSE kind

\* Two boards with the same obstacles, the same Start and the same End.
SameLayout(b1, b2) ==
    \A c \in Cells : Ground(b1[c[2]][c[1]]) = Ground(b2[c[2]][c[1]])

\* ---------------------------------------------------------------- C1

\* C1, as stated: on a board without obstacles traverse() returns solved with a
\* non-empty path that starts on the Start coordinate and ends on the End
\* coordinate.
C1_PathFromStartToEnd ==
    (Done /\ Intact(Last.before) /\ Obstacles(Last.before) = {})
        => /\ Last.exit = "solved"
           /\ solved
           /\ ret # <<>>
           /\ ret[1] = StartCoord
           /\ ret[Len(ret)] = EndCoord

\* C1, amended: on a board without obstacles traverse() returns solved, and the
\* path it returns holds neither the Start nor the End coordinate: it begins
\* next to End and ends next to Start, and is empty only when End is next to
\* Start.
C1_SolvedWithoutObstacles ==
    (Done /\ Intact(Last.before) /\ Obstacles(Last.before) = {})
        => /\ Last.exit = "solved"
           /\ solved
           /\ StartCoord \notin Range(ret)
           /\ EndCoord \notin Range(ret)
           /\ ret = <<>> => Adjacent(StartCoord, EndCoord)
           /\ ret # <<>> => /\ Adjacent(ret[1], EndCoord)
                            /\ Adjacent(ret[Len(ret)], StartCoord)

C1_Witness ==
    /\ Done /\ Intact(Last.before) /\ Obstacles(Last.before) = {}
    /\ Len(ret) >= 3
    /\ ~Adjacent(ret[1], StartCoord)

\* ---------------------------------------------------------------- C2

\* C2: on a board with its Start and its End square where no walk over cells
\* that are not obstacles joins Start to End, traverse() returns the empty path
\* and solved is false, whatever came before.
C2_NoRouteUnsolved ==
    (Done /\ Intact(Last.before) /\ ~Route(Last.before, {"Obstacle"}))
        => /\ ret = <<>>
           /\ solved = FALSE

\* ---------------------------------------------------------------- C3

\* C3: consecutive coordinates of a returned path are orthogonally adjacent.
C3_StepsAdjacent ==
    Done => \A i \in 1..(Len(ret) - 1) : Adjacent(ret[i], ret[i + 1])

C3_Witness ==
    /\ Done
    /\ Len(ret) >= 4
    /\ Obstacles(Last.before) # {}
    /\ \E i \in 1..(Len(ret) - 2) :
          ret[i][1] # ret[i + 2][1] /\ ret[i][2] # ret[i + 2][2]

\* ---------------------------------------------------------------- C4

\* C4: no returned path holds a coordinate twice, after any edits and earlier
\* traversals.
C4_NoRepeatedCoordinate ==
    Done => \A i, j \in 1..Len(ret) : i # j => ret[i] # ret[j]

C4_Witness ==
    /\ Done
    /\ Len(hist) >= 2
    /\ clicks > 0
    /\ Len(ret) >= 3
    /\ Len(Last.expanded) > Len(ret)

\* ---------------------------------------------------------------- C5

\* C5, as stated: the returned path runs from the element nearest Start to the
\* element nearest End, in the order the route was discovered.
C5_OriginToTarget ==
    (Done /\ Last.exit = "solved" /\ ret # <<>>)
        => /\ Adjacent(ret[1], StartCoord)
           /\ Adjacent(ret[Len(ret)], EndCoord)
           /\ \A i, j \in 1..Len(ret) : i < j => Pos(ret[i]) < Pos(ret[j])

\* C5, amended: the returned path is in target-to-origin order: its first
\* element is the one next to End, its last the one next to Start, and each
\* element was expanded after the one that follows it.
C5_TargetToOrigin ==
    (Done /\ Last.exit = "solved" /\ ret # <<>>)
        => /\ Adjacent(ret[1], EndCoord)
           /\ Adjacent(ret[Len(ret)], StartCoord)
           /\ Range(ret) \subseteq Range(Last.expanded)
           /\ \A i, j \in 1..Len(ret) : i < j => Pos(ret[i]) > Pos(ret[j])

C5_Witness ==
    /\ Done /\ Last.exit = "solved"
    /\ Len(ret) >= 2
    /\ ~Adjacent(ret[1], StartCoord)
    /\ ~Adjacent(ret[Len(ret)], EndCoord)

\* ---------------------------------------------------------------- C6

\* The 3 x 3 board with Start (0,0) and End (2,2), without obstacles.
ThreeByThree(board) ==
    /\ consts = [width |-> 3, height |-> 3, start_x |-> 0, start_y |-> 0,
                 end_x |-> 2, end_y |-> 2]
    /\ Intact(board)
    /\ Obstacles(board) = {}

\* C6, as stated: on that board the returned path is (0,0),(1,0),(2,0),(2,1),(2,2).
C6_PathAlongTheEdge ==
    (Done /\ ThreeByThree(Last.before))
        => ret = << <<0, 0>>, <<1, 0>>, <<2, 0>>, <<2, 1>>, <<2, 2>> >>

\* C6, amended: on that board traverse() reaches End and returns
\* (1,2),(0,2),(0,1),(1,1),(2,1),(2,0),(1,0): from (2,1) the search turns West
\* before South, and the path is returned End side first, without Start and End.
C6_PathThroughTheMiddle ==
    (Done /\ ThreeByThree(Last.before))
        => /\ Last.exit = "solved"
           /\ solved
           /\ ret = << <<1, 2>>, <<0, 2>>, <<0, 1>>, <<1, 1>>, <<2, 1>>,
                       <<2, 0>>, <<1, 0>> >>

C6_Witness ==
    /\ Done /\ ThreeByThree(Last.before)
    /\ Last.exit = "solved"
    /\ Last.before = init_state(3, 3)

\* ---------------------------------------------------------------- C7

\* Every cell of rows 0..height-1 is Init, but the Start and the End square.
FreshBoard(board) ==
    /\ DOMAIN board = 0..height
    /\ \A y \in 0..(height - 1) :
          /\ DOMAIN board[y] = 0..(width - 1)
          /\ \A x \in 0..(width - 1) :
                board[y][x] = IF <<x, y>> = StartCoord THEN "StartSquare"
                              ELSE IF <<x, y>> = EndCoord THEN "EndSquare"
                              ELSE "Init"

\* C7: clear() leaves the freshly constructed board, whatever clicks, button
\* presses and traversals came before: the same board as in the initial state.
C7_ClearRestoresFreshBoard ==
    [][NewGameButton => (FreshBoard(state') /\ state' = init_state(DEFAULT_HEIGHT, DEFAULT_WIDTH))]_vars

\* clear() has acted on a board that held obstacles and a marked solution: the
\* start button set button_state to Start, and only clear() sets it back.
C7_Witness ==
    /\ Done
    /\ button_state = "NewGame"
    /\ Obstacles(Last.after) # {}
    /\ \E c \in Cells : Last.after[c[2]][c[1]] = "SolutionPath"
    /\ ~Intact(Last.after)
    /\ FreshBoard(state)

\* ---------------------------------------------------------------- C8

\* C8: two traversals on boards with the same obstacles, Start and End return
\* the same path; a traversal started on the very board the one before left
\* returns the same path and leaves that board as it is.
C8_Deterministic ==
    Done => \A i, j \in 1..Len(hist) :
                i < j =>
                    /\ SameLayout(hist[i].before, hist[j].before)
                          => hist[j].ret = hist[i].ret /\ hist[j].exit = hist[i].exit
                    /\ (j = i + 1 /\ hist[j].before = hist[i].after)
                          => /\ hist[j].ret = hist[i].ret
                             /\ hist[j].after = hist[i].after

C8_Witness ==
    /\ Done
    /\ Len(hist) >= 2
    /\ hist[2].before = hist[1].after
    /\ hist[1].exit = "solved"
    /\ Len(hist[1].ret) >= 2
    /\ Obstacles(hist[1].before) # {}
    /\ \E c \in Cells : hist[1].after[c[2]][c[1]] = "PossiblePath"

\* ---------------------------------------------------------------- C9

\* C9: a started traverse() returns: the stack empties or End is popped.
C9_Terminates == (pc = "loop") ~> (pc = "idle")

C9_Witness ==
    /\ Done
    /\ Last.exit = "exhausted"
    /\ Obstacles(Last.before) # {}
    /\ Len(Last.expanded) >= 4

\* ---------------------------------------------------------------- C10

\* C10: traverse() returns by the empty stack only when no walk over cells that
\* are neither Obstacle nor StartSquare leads from the Start coordinate to the
\* End square; when there is one, it returns by the End square and solved is set.
C10_ExhaustedOnlyWithoutRoute ==
    Done => /\ Last.exit = "exhausted" => ~Route(Last.before, {"Obstacle", "StartSquare"})
            /\ Route(Last.before, {"Obstacle", "StartSquare"})
                  => Last.exit = "solved" /\ solved

C10_Witness ==
    /\ Done
    /\ Cardinality(Obstacles(Last.before)) >= 2
    /\ Route(Last.before, {"Obstacle", "StartSquare"})
    /\ Last.exit = "solved"
    /\ Len(Last.expanded) > Len(ret) + 1

\* ---------------------------------------------------------------- C11

East == <<1, 0>>
West == <<-1, 0>>
North == <<0, -1>>
South == <<0, 1>>

\* The neighbours of (x, y) in the listed directions, in the order listed.
Neighbours(x, y, compass) ==
    [i \in 1..Len(compass) |-> <<x + compass[i][1], y + compass[i][2]>>]

\* The moves from node to those of the listed neighbours that are valid on
\* board, in the order listed.
MovesInOrder(board, node, neighbours) ==
    LET valid == SelectSeq(neighbours, LAMBDA c : is_valid_move(board, c[1], c[2]))
    IN  [i \in 1..Len(valid) |-> <<valid[i][1], valid[i][2], node>>]

\* The node expanded by the step that pops the top of the stack.
PoppedNode ==
    LET m == stack[Len(stack)]
    IN  [x |-> m[1], y |-> m[2], parent |-> <<m[3]>>]

\* The step is the call of get_possible_moves on the root node.
ExpandsRoot == pc = "idle" /\ pc' = "loop"

\* The step is an iteration that calls get_possible_moves on a new node.
ExpandsNode == pc = "loop" /\ expanded' # expanded

\* The sequence pushed by the step is that of the valid neighbours of the
\* expanded node, each carrying that node, in the order given by compass; the
\* call on the root node leaves the board as it was.
ReturnsInOrder(compass) ==
    /\ ExpandsRoot =>
          /\ stack' = MovesInOrder(state, Node_new(DEFAULT_START_X, DEFAULT_START_Y),
                                   Neighbours(DEFAULT_START_X, DEFAULT_START_Y, compass))
          /\ state' = state
    /\ ExpandsNode =>
          /\ SubSeq(stack', 1, Len(stack) - 1) = SubSeq(stack, 1, Len(stack) - 1)
          /\ SubSeq(stack', Len(stack), Len(stack'))
                = MovesInOrder(state', PoppedNode,
                               Neighbours(PoppedNode.x, PoppedNode.y, compass))

EastWestNorthSouth == <<East, West, North, South>>

SouthNorthWestEast == <<South, North, West, East>>

\* C11 as stated: get_possible_moves returns the valid neighbours of the node,
\* each carrying the node, ordered East, West, North, South.
C11_EastFirst == [][ReturnsInOrder(EastWestNorthSouth)]_vars

\* C11: get_possible_moves returns exactly the valid neighbours of the node,
\* each carrying the node as its originating node, ordered South, North, West,
\* East (East is last, so it is the first to be popped), and leaves the board alone.
C11_SouthFirst == [][ReturnsInOrder(SouthNorthWestEast)]_vars

\* The last expansion returned three moves from a node that is not the root.
C11_Witness ==
    /\ pc = "loop"
    /\ Len(stack) >= 3
    /\ LET n == Len(stack)
       IN  /\ stack[n][3].parent # None
           /\ stack[n][3] = stack[n - 1][3]
           /\ stack[n][3] = stack[n - 2][3]
           /\ <<stack[n][3].x, stack[n][3].y>> = expanded[Len(expanded)]

\* ---------------------------------------------------------------- C12

Kind(board, c) == board[c[2]][c[1]]

\* The cells of the board that carry the classification kind.
CellsOf(board, kind) == { c \in Cells : Kind(board, c) = kind }

Fixed == {"Obstacle", "StartSquare", "EndSquare"}

\* C12: no step of traverse() changes a cell classified Obstacle, StartSquare
\* or EndSquare, and none gives a cell one of these classifications, so a board
\* with one Start and one End cell keeps exactly one of each up to the return.
C12_FixedCellsKept ==
    [][pc = "loop" =>
          /\ \A c \in Cells :
                (Kind(state, c) \in Fixed \/ Kind(state', c) \in Fixed)
                    => Kind(state', c) = Kind(state, c)
          /\ \A kind \in Fixed :
                Cardinality(CellsOf(state', kind)) = Cardinality(CellsOf(state, kind))]_vars

\* A solved traverse() has marked a path on a board with obstacles, a Start and
\* an End square, all of which are there at the return.
C12_Witness ==
    /\ Done
    /\ Last.exit = "solved"
    /\ Len(ret) >= 2
    /\ Obstacles(Last.before) # {}
    /\ Intact(Last.before)
    /\ Intact(state)
    /\ Obstacles(state) = Obstacles(Last.before)
    /\ Cardinality(CellsOf(state, "StartSquare")) = 1
    /\ Cardinality(CellsOf(state, "EndSquare")) = 1

\* ---------------------------------------------------------------- C13

\* The changes of classification that the step makes, as pairs <<old, new>>.
Changes == { <<Kind(state, c), Kind(state', c)>> :
                c \in { d \in Cells : Kind(state', d) # Kind(state, d) } }

\* The classification that the expanding step finds on the cell it marks.
Overwritten == Kind(state, expanded'[Len(expanded')])

\* C13 as stated: every cell write of traverse(), also of a run on a board
\* marked by an earlier run, is Init -> PossiblePath, Init -> SolutionPath or
\* PossiblePath -> SolutionPath.
C13_MarksOnlyAdvance ==
    [][pc = "loop" =>
          /\ Changes \subseteq {<<"Init", "PossiblePath">>, <<"Init", "SolutionPath">>,
                                <<"PossiblePath", "SolutionPath">>}
          /\ ExpandsNode => Overwritten = "Init"]_vars

\* C13: every cell write of traverse() is PossiblePath over Init, PossiblePath
\* or SolutionPath (the last two only on a cell marked by an earlier run), or
\* SolutionPath over PossiblePath; a run on a board without marks only makes the
\* changes Init -> PossiblePath and PossiblePath -> SolutionPath.
C13_MarksOverOpenGround ==
    [][pc = "loop" =>
          /\ Changes \subseteq {<<"Init", "PossiblePath">>, <<"SolutionPath", "PossiblePath">>,
                                <<"PossiblePath", "SolutionPath">>}
          /\ ExpandsNode =>
                /\ Overwritten \in {"Init", "PossiblePath", "SolutionPath"}
                /\ Overwritten # "Init" => Overwritten = Kind(board0, expanded'[Len(expanded')])
          /\ (CellsOf(board0, "PossiblePath") \cup CellsOf(board0, "SolutionPath") = {})
                => /\ Changes \subseteq {<<"Init", "PossiblePath">>,
                                         <<"PossiblePath", "SolutionPath">>}
                   /\ ExpandsNode => Overwritten = "Init"]_vars

\* A second traverse() has turned a SolutionPath cell of the first one back to
\* PossiblePath and has marked its own path.
C13_Witness ==
    /\ Done
    /\ Len(hist) = 2
    /\ Last.exit = "solved"
    /\ ret # <<>>
    /\ \E c \in Cells : /\ Kind(Last.before, c) = "SolutionPath"
                        /\ Kind(Last.after, c) = "PossiblePath"
    /\ \E c \in Cells : /\ Kind(Last.before, c) = "Init"
                        /\ Kind(Last.after, c) = "SolutionPath"

\* ---------------------------------------------------------------- C14

\* The number of times the coordinate c has been expanded in the running traverse().
Expansions(seq, c) == Cardinality({ i \in 1..Len(seq) : seq[i] = c })

\* The node and all its ancestors below the root were expanded exactly once.
ChainExpandedOnce(seq, node) ==
    \A c \in Range(find_reverse_path(node)) : Expansions(seq, c) = 1

\* C14: within one run of traverse() no coordinate is expanded twice; a popped
\* move on a coordinate that was expanded before is dropped, the board, the
\* stack below it and the expansions staying as they are; there are at most as
\* many expansions as cells; the node of every stacked move and its ancestors
\* below the root were expanded exactly once.
C14_ExpandedAtMostOnce ==
    [][(pc = "loop" /\ Len(stack) > 0) =>
          LET m == stack[Len(stack)]
          IN  /\ <<m[1], m[2]>> \in Range(expanded) =>
                    /\ state' = state
                    /\ stack' = SubSeq(stack, 1, Len(stack) - 1)
                    /\ expanded' = expanded
              /\ \A c \in Cells : Expansions(expanded', c) <= 1
              /\ Len(expanded') <= width * height
              /\ \A i \in 1..Len(stack') : ChainExpandedOnce(expanded', stack'[i][3])
              /\ ChainExpandedOnce(expanded, m[3])]_vars

\* The traverse() has discarded moves on two coordinates it had expanded
\* before, and has expanded at least three.
C14_Witness ==
    /\ Done
    /\ Len(Last.expanded) >= 3
    /\ Cardinality(skipped) >= 2
    /\ skipped \subseteq Range(Last.expanded)

\* ---------------------------------------------------------------- C15

\* The coordinate passes the bounds check of is_valid_move.
InBounds(x, y) == 0 <= x /\ x < width /\ 0 <= y /\ y < height

\* C15: every move on the stack of traverse() is on a coordinate inside the
\* board, and so is every coordinate at which traverse() reads or writes the
\* board: the expanded ones, the discarded ones and those of the path it marks.
C15_AccessInBounds ==
    /\ \A i \in 1..Len(stack) : InBounds(stack[i][1], stack[i][2])
    /\ \A c \in skipped : InBounds(c[1], c[2])
    /\ \A i \in 1..Len(expanded) : InBounds(expanded[i][1], expanded[i][2])
    /\ \A i \in 1..Len(ret) : InBounds(ret[i][1], ret[i][2])
    /\ DOMAIN state = 0..height
    /\ \A y \in 0..(height - 1) : DOMAIN state[y] = 0..(width - 1)

\* A traverse() is expanding from the corner opposite the origin of a board
\* with at least two rows and two columns, where two neighbours are outside.
C15_Witness ==
    /\ pc = "loop"
    /\ width >= 2
    /\ height >= 2
    /\ Len(expanded) >= 2
    /\ expanded[Len(expanded)] = <<width - 1, height - 1>>
    /\ Len(stack) > 0
    /\ stack[Len(stack)][3].x = width - 1
    /\ stack[Len(stack)][3].y = height - 1

\* ---------------------------------------------------------------- C16

\* The step pops a move on the End square.
ReachesEnd ==
    /\ pc = "loop"
    /\ Len(stack) > 0
    /\ Kind(state, <<stack[Len(stack)][1], stack[Len(stack)][2]>>) = "EndSquare"

\* The coordinates of the ancestors of the node created at the End square, the
\* root left out: those of the node that the popped move carries and of its
\* ancestors below the root.
DiscoveredRoute == Range(find_reverse_path(stack[Len(stack)][3]))

\* C16: when traverse() pops a move on the End square it returns, and each
\* coordinate on the chain of ancestors of the node created there, the root
\* excluded, is then classified SolutionPath; the End square itself stays
\* EndSquare.
C16_RouteMarked ==
    [][ReachesEnd =>
          /\ pc' = "idle"
          /\ \A c \in DiscoveredRoute : Kind(state', c) = "SolutionPath"
          /\ Range(ret') = DiscoveredRoute
          /\ hist'[Len(hist')].after = state'
          /\ Kind(state', <<stack[Len(stack)][1], stack[Len(stack)][2]>>) = "EndSquare"]_vars

\* A traverse() returned solved with a route of at least three cells, all of
\* them SolutionPath, and left other cells marked PossiblePath.
C16_Witness ==
    /\ Done
    /\ Last.exit = "solved"
    /\ Len(ret) >= 3
    /\ \A c \in Range(ret) : Kind(Last.after, c) = "SolutionPath"
    /\ CellsOf(Last.after, "PossiblePath") # {}

\* ---------------------------------------------------------------- C17

\* The step is the return of traverse().
Returns == pc = "loop" /\ pc' = "idle"

\* C17: solved is true exactly when the latest traverse() since the last
\* clear() reached the End square: clear() leaves it false, a traverse()
\* returning by the empty stack leaves it false, one returning by the End
\* square leaves it true, and no other step changes it.
C17_SolvedFollowsLatestRun ==
    [][/\ NewGameButton => ~solved'
       /\ Returns => (solved' <=> hist'[Len(hist')].exit = "solved")
       /\ ~NewGameButton /\ ~Returns => solved' = solved]_vars

\* ---------------------------------------------------------------- C18

\* C18: in every reachable state the cell at the Start coordinate is
\* StartSquare, the cell at the End coordinate is EndSquare and no other cell
\* carries either classification: no cell click overwrites them.
C18_StartAndEndStay ==
    /\ CellsOf(state, "StartSquare") = {StartCoord}
    /\ CellsOf(state, "EndSquare") = {EndCoord}

\* ---------------------------------------------------------------- C19

\* C19: when traverse() has returned solved, every cell classified SolutionPath
\* on the board it leaves is on the path it returned, whatever traversals and
\* clicks came before.
C19_OnlyReturnedPathMarked ==
    (Done /\ Last.exit = "solved")
        => CellsOf(Last.after, "SolutionPath") \subseteq Range(Last.ret)

====
